---- MODULE Spec2Model ----
(***************************************************************************)
(* Model of the two detectors of the repository:                           *)
(*   ERC20ChangeBalance  (src/slither/detectors/Change_Balance.py)         *)
(*   ERC20TransferLimit  (src/slither/detectors/attributes/max_transfer.py)*)
(*                                                                         *)
(* The host framework's objects are records tagged with the class they are *)
(* an instance of (field "kind"), so isinstance(x, C) is x.kind = C.       *)
(* Text that the code searches (str(instruction.called)) is a sequence of  *)
(* characters, so that the substring test is computed, not assumed.        *)
(* A Python call either returns or raises: every function that can raise   *)
(* yields an outcome record whose field "raised" names the exception       *)
(* ("" when the call returned).                                            *)
(*                                                                         *)
(* The host's data arrives piece by piece: a loop over c.functions or over  *)
(* self.contracts receives its next item, the host's lists of that item    *)
(* (f.instructions, function.all_nodes()) are filled one element at a      *)
(* time, and then the body of the loop runs on the item as a whole.        *)
(* Python's name Literal is not bound in max_transfer.py; the model keeps  *)
(* the module's namespace and resolves the name as Python does.            *)
(***************************************************************************)
EXTENDS Integers, Sequences, FiniteSets, TLC

VARIABLES
  pc,          \* where the run is
  cb_n,        \* ERC20ChangeBalance: functions of c.functions iterated so far
  cb_f,        \* the function of the current / last iteration
  cb_prev,     \* results before the last iteration
  cb_results,  \* the local list results of _detect_change_balance_function
  cb_ret,      \* what _detect_change_balance_function returned
  cb_detect,   \* what ERC20ChangeBalance._detect returned
  tl_n,        \* ERC20TransferLimit: contracts of self.contracts iterated so far
  tl_contract, \* the contract of the current / last iteration
  tl_cprev,    \* results before the last iteration
  tl_scanned,  \* names of the functions scanned in the last iteration, in order
  tl_outs,     \* outcomes of those _detect_transfer_limit calls, in order
  tl_results,  \* the local list results of ERC20TransferLimit._detect
  tl_exc,      \* the exception that left _detect ("" if none)
  tl_ret,      \* what ERC20TransferLimit._detect returned
  tl_exp,      \* the expression a predicate was called on directly
  tl_probe     \* outcome of that direct call

vars == <<pc, cb_n, cb_f, cb_prev, cb_results, cb_ret, cb_detect,
          tl_n, tl_contract, tl_cprev, tl_scanned, tl_outs, tl_results, tl_exc,
          tl_ret, tl_exp, tl_probe>>

cb_vars == <<cb_n, cb_f, cb_prev, cb_results, cb_ret, cb_detect>>

tl_vars == <<tl_n, tl_contract, tl_cprev, tl_scanned, tl_outs, tl_results, tl_exc,
             tl_ret, tl_exp, tl_probe>>

\* ------------------------------------------------------------------ bounds
MaxFunctions == 2

MaxInstr == 3

MaxContracts == 2

MaxNodes == 2

\* ------------------------------------------------- host objects (records)
StateVariable(name, type_name) ==
  [kind |-> "StateVariable", name |-> name, type_name |-> type_name]

LocalVariable(name, type_name) ==
  [kind |-> "LocalVariable", name |-> name, type_name |-> type_name]

SolidityVariableComposed(name) ==
  [kind |-> "SolidityVariableComposed", name |-> name, type_name |-> "uint256"]

Identifier(variable) == [kind |-> "Identifier", value |-> variable]

IntLiteral(n) == [kind |-> "Literal", pytype |-> "int", ival |-> n, sval |-> ""]

StrLiteral(s) == [kind |-> "Literal", pytype |-> "str", ival |-> 0, sval |-> s]

BinaryOperation(type, left, right) ==
  [kind |-> "BinaryOperation", type |-> type, left |-> left, right |-> right]

CallExpression(called) == [kind |-> "CallExpression", called |-> called]

NoExpression == [kind |-> "NoneType"]

\* ----------------------------------------------------------------- text
Text_transfer == <<"t", "r", "a", "n", "s", "f", "e", "r">>

Text_token_transfer ==
  <<"t", "o", "k", "e", "n", ".", "t", "r", "a", "n", "s", "f", "e", "r">>

Text_Transfer == <<"T", "r", "a", "n", "s", "f", "e", "r">>

\* Python's  sub in s  on str: s holds sub as a contiguous slice.
PyStrIn(sub, s) ==
  \E i \in 1..(Len(s) - Len(sub) + 1) : SubSeq(s, i, i + Len(sub) - 1) = sub

\* Python's  x in list.
PyListIn(x, list) == \E i \in DOMAIN list : list[i] = x

\* ============================================================== Detector 4.1
\* ERC20ChangeBalance

\* The list with "Transfer" written in lower case.
ignored_functions_lowercase == <<"mint", "burn", "transfer", "transferFrom">>

ignored_functions == <<"mint", "burn", "Transfer", "transferFrom">>

_is_balance_altering_instruction(instruction) ==
  IF instruction.kind = "CallExpression" /\ PyStrIn(Text_transfer, instruction.called)
  THEN TRUE
  ELSE FALSE

RECURSIVE _has_balance_altering_operations(_)
_has_balance_altering_operations(instructions) ==
  IF instructions = <<>> THEN FALSE
  ELSE IF _is_balance_altering_instruction(Head(instructions)) THEN TRUE
  ELSE _has_balance_altering_operations(Tail(instructions))

_is_balance_variable(variable) ==
  IF /\ variable.kind = "StateVariable"
     /\ variable.type_name = "mapping(address => uint256)"
     /\ variable.name = "balanceOf"
  THEN TRUE
  ELSE FALSE

_is_balance_increment_or_decrement_instruction(instruction) ==
  IF instruction.kind = "BinaryOperation" /\ instruction.type \in {"ADD", "SUB"}
  THEN LET left_operand == instruction.left
           right_operand == instruction.right
       IN  IF _is_balance_variable(left_operand) \/ _is_balance_variable(right_operand)
           THEN TRUE
           ELSE FALSE
  ELSE FALSE

RECURSIVE _performs_balance_increment_or_decrement(_)
_performs_balance_increment_or_decrement(instructions) ==
  IF instructions = <<>> THEN FALSE
  ELSE IF _is_balance_increment_or_decrement_instruction(Head(instructions)) THEN TRUE
  ELSE _performs_balance_increment_or_decrement(Tail(instructions))

\* Any modifier at all taken for the access-control modifier.
HasAnyModifier(f) == f.modifiers # <<>>

\* any(modifier.name == "onlyOwner" for modifier in f.modifiers)
HasOnlyOwnerModifier(f) == \E i \in DOMAIN f.modifiers : f.modifiers[i] = "onlyOwner"

\* One iteration of  for f in c.functions  (the nested ifs and the append).
ChangeBalanceLoopBody(results, f) ==
  IF ~PyListIn(f.name, ignored_functions)
  THEN IF HasOnlyOwnerModifier(f)
       THEN IF _has_balance_altering_operations(f.instructions)
            THEN IF _performs_balance_increment_or_decrement(f.instructions)
                 THEN Append(results, f.name)
                 ELSE results
            ELSE results
       ELSE results
  ELSE results

RECURSIVE ChangeBalanceLoop(_, _)
ChangeBalanceLoop(results, functions) ==
  IF functions = <<>> THEN results
  ELSE ChangeBalanceLoop(ChangeBalanceLoopBody(results, Head(functions)), Tail(functions))

_detect_change_balance_function(c) == ChangeBalanceLoop(<<>>, c.functions)

\* _detect wired to the matcher: the names the matcher returned are reported.
ERC20ChangeBalance_detect_wired == cb_ret

\* ERC20ChangeBalance._detect: results = [] and return results, nothing between.
ERC20ChangeBalance_detect == <<>>

\* ---- the data the host can supply to detector 4.1
balanceOf == StateVariable("balanceOf", "mapping(address => uint256)")

balances == StateVariable("balances", "mapping(address => uint256)")

balanceOf_uint == StateVariable("balanceOf", "mapping(address => uint)")

balanceOf_local == LocalVariable("balanceOf", "mapping(address => uint256)")

amount == LocalVariable("amount", "uint256")

Instructions ==
  { CallExpression(Text_token_transfer),
    CallExpression(Text_Transfer),
    BinaryOperation("ADD", balanceOf, amount),
    BinaryOperation("SUB", amount, balanceOf),
    BinaryOperation("MUL", balanceOf, amount),
    BinaryOperation("ADD", balances, balanceOf_uint),
    BinaryOperation("SUB", Identifier(balanceOf), balanceOf_local) }

FunctionNames == {"mint", "burn", "Transfer", "transferFrom", "transfer", "setBalance"}

ModifierLists ==
  { <<>>, <<"onlyOwner">>, <<"OnlyOwner">>, <<"whenNotPaused", "onlyOwner">> }

NoFunction == [name |-> "", modifiers |-> <<>>, instructions |-> <<>>]

\* ---- actions of detector 4.1
\* _detect_change_balance_function(c) is entered: results = [].
CB_Call ==
  /\ pc = "start"
  /\ pc' = "cb_loop"
  /\ cb_results' = <<>>
  /\ UNCHANGED <<cb_n, cb_f, cb_prev, cb_ret, cb_detect>>
  /\ UNCHANGED tl_vars

\* for f in c.functions: the host yields the next function.
CB_NextFunction(name, modifiers) ==
  /\ pc = "cb_loop"
  /\ cb_n < MaxFunctions
  /\ pc' = "cb_body"
  /\ cb_f' = [name |-> name, modifiers |-> modifiers, instructions |-> <<>>]
  /\ UNCHANGED <<cb_n, cb_prev, cb_results, cb_ret, cb_detect>>
  /\ UNCHANGED tl_vars

\* f.instructions: the host's list holds one more instruction.
CB_HostInstruction(instruction) ==
  /\ pc = "cb_body"
  /\ Len(cb_f.instructions) < MaxInstr
  /\ cb_f' = [cb_f EXCEPT !.instructions = Append(@, instruction)]
  /\ UNCHANGED <<pc, cb_n, cb_prev, cb_results, cb_ret, cb_detect>>
  /\ UNCHANGED tl_vars

\* The body of the loop, run on f.
CB_Iterate ==
  /\ pc = "cb_body"
  /\ pc' = "cb_loop"
  /\ cb_n' = cb_n + 1
  /\ cb_prev' = cb_results
  /\ cb_results' = ChangeBalanceLoopBody(cb_results, cb_f)
  /\ UNCHANGED <<cb_f, cb_ret, cb_detect>>
  /\ UNCHANGED tl_vars

\* c.functions is exhausted: return results. The loop's own variables end here.
CB_Return ==
  /\ pc = "cb_loop"
  /\ pc' = "cb_returned"
  /\ cb_ret' = cb_results
  /\ cb_n' = 0
  /\ cb_f' = NoFunction
  /\ cb_prev' = <<>>
  /\ UNCHANGED <<cb_results, cb_detect>>
  /\ UNCHANGED tl_vars

\* The host runs the detector's registered entry point on the same contract.
CB_Detect ==
  /\ pc = "cb_returned"
  /\ pc' = "cb_detected"
  /\ cb_detect' = ERC20ChangeBalance_detect
  /\ UNCHANGED <<cb_n, cb_f, cb_prev, cb_results, cb_ret>>
  /\ UNCHANGED tl_vars

\* ============================================================== Detector 4.2
\* ERC20TransferLimit

\* The names bound in the namespace of max_transfer.py: its imports and its class.
max_transfer_globals ==
  { "typing", "List", "AbstractDetector", "DetectorClassification", "DETECTOR_INFO",
    "Contract", "Function", "Variable", "StateVariable", "Output", "NodeType",
    "CallExpression", "BinaryOperation", "BinaryOperationType", "UnaryOperation",
    "UnaryOperationType", "AssignmentOperation", "TupleExpression", "Identifier",
    "ElementaryType", "data_dependency", "ERC20TransferLimit" }

\* Python resolves a global name when the expression using it is evaluated; a name
\* that is neither a global of the module nor a builtin raises NameError there.
NameIsBound(name) == name \in max_transfer_globals \cup {"isinstance", "int"}

\* ---- outcomes of calls
BoolReturn(b) == [raised |-> "", b |-> b]

BoolRaise(exception) == [raised |-> exception, b |-> FALSE]

PyNone == [py |-> "None", ival |-> 0, sval |-> ""]

PyInt(n) == [py |-> "int", ival |-> n, sval |-> ""]

PyStr(s) == [py |-> "str", ival |-> 0, sval |-> s]

\* A host object (a Variable): it is no int and no str.
PyObject(variable) == [py |-> "object", ival |-> 0, sval |-> variable.name]

ValueReturn(v) == [raised |-> "", value |-> v]

ValueRaise(exception) == [raised |-> exception, value |-> PyNone]

\* x == "text" for a Python value x: only a str equals a str (the host's Variable
\* classes compare by identity or by class and name, never equal to a str).
PyEqStr(v, text) == v.py = "str" /\ v.sval = text

\* e.value: Identifier and Literal have the attribute, other expressions do not.
AttrValue(e) ==
  IF e.kind = "Identifier" THEN ValueReturn(PyObject(e.value))
  ELSE IF e.kind = "Literal"
       THEN ValueReturn(IF e.pytype = "int" THEN PyInt(e.ival) ELSE PyStr(e.sval))
       ELSE ValueRaise("AttributeError")

_is_transfer_require(exp) ==
  IF exp.kind # "BinaryOperation" THEN BoolReturn(FALSE)
  ELSE IF exp.type # "LT" THEN BoolReturn(FALSE)
  ELSE IF exp.left.kind # "Identifier" THEN BoolReturn(FALSE)
  ELSE IF ~NameIsBound("Literal") THEN BoolRaise("NameError")
  ELSE IF exp.right.kind # "Literal" THEN BoolReturn(FALSE)
  ELSE IF exp.left.value.kind # "StateVariable" THEN BoolReturn(FALSE)
  ELSE IF exp.right.pytype # "int" THEN BoolReturn(FALSE)
  ELSE BoolReturn(exp.left.value.type_name = "uint256")

_is_transfer_require_statement(exp) ==
  IF exp.kind # "BinaryOperation" THEN BoolReturn(FALSE)
  ELSE IF exp.type # "AND" THEN BoolReturn(FALSE)
  ELSE LET l == _is_transfer_require(exp.left)
       IN  IF l.raised # "" THEN l
           ELSE IF ~l.b THEN BoolReturn(FALSE)
           ELSE _is_transfer_require(exp.right)

_get_transfer_limit(exp) ==
  IF exp.kind # "BinaryOperation" THEN ValueRaise("AttributeError")
  ELSE LET l == AttrValue(exp.left)
           r == AttrValue(exp.right)
       IN  IF l.raised # "" THEN l
           ELSE IF PyEqStr(l.value, "msg.value") THEN r
           ELSE IF r.raised # "" THEN r
           ELSE IF PyEqStr(r.value, "msg.value") THEN l
           ELSE ValueReturn(PyNone)

RECURSIVE TransferLimitScan(_)
TransferLimitScan(nodes) ==
  IF nodes = <<>> THEN ValueReturn(PyNone)
  ELSE LET node == Head(nodes)
       IN  IF node.type = "EXPRESSION"
           THEN LET m == _is_transfer_require_statement(node.expression)
                IN  IF m.raised # "" THEN ValueRaise(m.raised)
                    ELSE IF m.b THEN _get_transfer_limit(node.expression)
                    ELSE TransferLimitScan(Tail(nodes))
           ELSE TransferLimitScan(Tail(nodes))

_detect_transfer_limit(function) == TransferLimitScan(function.nodes)

transfer_signatures == <<"transfer(address,uint256)", "transferFrom(address,address,uint256)">>

\* contract.get_function_from_signature(signature): the function or None.
HasFunction(contract, signature) == \E f \in contract.functions : f.signature = signature

get_function_from_signature(contract, signature) ==
  CHOOSE f \in contract.functions : f.signature = signature

RECURSIVE TransferFunctionsLoop(_, _, _)
TransferFunctionsLoop(contract, signatures, transfer_functions) ==
  IF signatures = <<>> THEN transfer_functions
  ELSE TransferFunctionsLoop(
         contract, Tail(signatures),
         IF HasFunction(contract, Head(signatures))
         THEN Append(transfer_functions, get_function_from_signature(contract, Head(signatures)))
         ELSE transfer_functions)

\* The lookup loop left at the first signature the contract lacks.
_get_transfer_functions_stop(contract) ==
  IF ~HasFunction(contract, transfer_signatures[1]) THEN <<>>
  ELSE TransferFunctionsLoop(contract, transfer_signatures, <<>>)

_get_transfer_functions(contract) == TransferFunctionsLoop(contract, transfer_signatures, <<>>)

\* self.generate_result(contract, transfer_function.name, transfer_limit): the finding
\* names the contract, the function and the limit.
generate_result(contract, name, limit) ==
  [contract |-> [index |-> contract.index, is_token |-> contract.is_token],
   function |-> name, limit |-> limit]

\* The loop body without the is_token test.
DetectCandidates_any(contract) == _get_transfer_functions(contract)

\* The functions _detect visits for one contract:  if contract.is_token: ...
DetectCandidates(contract) ==
  IF contract.is_token THEN _get_transfer_functions(contract) ELSE <<>>

\* What one scan adds to results:  if transfer_limit is not None: results.append(...)
DetectAppend(results, contract, transfer_function, out) ==
  IF out.value.py # "None"
  THEN Append(results, generate_result(contract, transfer_function.name, out.value))
  ELSE results

\* for transfer_function in transfer_functions: scan, then append or not. An exception
\* leaves the loop at once. run = [raised, results, scanned, outs].
RECURSIVE DetectInnerLoop(_, _, _)
DetectInnerLoop(run, contract, transfer_functions) ==
  IF transfer_functions = <<>> \/ run.raised # "" THEN run
  ELSE LET transfer_function == Head(transfer_functions)
           out == _detect_transfer_limit(transfer_function)
       IN  DetectInnerLoop(
             [raised |-> out.raised,
              results |-> IF out.raised # "" THEN run.results
                          ELSE DetectAppend(run.results, contract, transfer_function, out),
              scanned |-> Append(run.scanned, transfer_function.name),
              outs |-> Append(run.outs, out)],
             contract, Tail(transfer_functions))

\* One iteration of  for contract in self.contracts.
DetectLoopBody(results, contract) ==
  DetectInnerLoop([raised |-> "", results |-> results, scanned |-> <<>>, outs |-> <<>>],
                  contract, DetectCandidates(contract))

\* ---- the data the host can supply to detector 4.2
balance == StateVariable("balance", "uint256")

fee == StateVariable("fee", "uint8")

msg_value == SolidityVariableComposed("msg.value")

Leaves ==
  { Identifier(balance), Identifier(fee), Identifier(amount), Identifier(msg_value),
    IntLiteral(100), StrLiteral("msg.value") }

Comparisons ==
  { BinaryOperation(type, l, r) : type \in {"LT", "GT"}, l \in Leaves, r \in Leaves }

Expressions ==
  { BinaryOperation(type, l, r) : type \in {"AND", "OR"}, l \in Comparisons, r \in Comparisons }
  \cup Comparisons \cup Leaves \cup {CallExpression(Text_token_transfer)}

\* balance < 100 && balance < 100
GuardExpression ==
  BinaryOperation("AND", BinaryOperation("LT", Identifier(balance), IntLiteral(100)),
                         BinaryOperation("LT", Identifier(balance), IntLiteral(100)))

\* 100 < balance && 100 < balance
ReversedGuardExpression ==
  BinaryOperation("AND", BinaryOperation("LT", IntLiteral(100), Identifier(balance)),
                         BinaryOperation("LT", IntLiteral(100), Identifier(balance)))

\* balance < msg.value && msg.value < 100
MsgValueExpression ==
  BinaryOperation("AND", BinaryOperation("LT", Identifier(balance), Identifier(msg_value)),
                         BinaryOperation("LT", Identifier(msg_value), IntLiteral(100)))

Node(type, expression) == [type |-> type, expression |-> expression]

Nodes ==
  { Node("IF", GuardExpression),
    Node("EXPRESSION", CallExpression(Text_token_transfer)),
    Node("EXPRESSION", GuardExpression),
    Node("EXPRESSION", ReversedGuardExpression),
    Node("EXPRESSION", MsgValueExpression) }

FunctionDecl(name, signature) == [name |-> name, signature |-> signature, nodes |-> <<>>]

FunctionDecls ==
  { FunctionDecl("transfer", "transfer(address,uint256)"),
    FunctionDecl("transferFrom", "transferFrom(address,address,uint256)"),
    FunctionDecl("transfer", "transfer(uint256)") }

NoContract == [index |-> 0, is_token |-> FALSE, functions |-> {}]

NoOutcome == ValueReturn(PyNone)

\* ---- actions of detector 4.2
\* _detect() is entered: results = [].
TL_Call ==
  /\ pc = "start"
  /\ pc' = "tl_loop"
  /\ tl_results' = <<>>
  /\ UNCHANGED <<tl_n, tl_contract, tl_cprev, tl_scanned, tl_outs, tl_exc, tl_ret,
                 tl_exp, tl_probe>>
  /\ UNCHANGED cb_vars

\* for contract in self.contracts: the host yields the next contract.
TL_NextContract(is_token, functions) ==
  /\ pc = "tl_loop"
  /\ tl_n < MaxContracts
  /\ pc' = "tl_body"
  /\ tl_contract' = [index |-> tl_n + 1, is_token |-> is_token, functions |-> functions]
  /\ tl_scanned' = <<>>
  /\ tl_outs' = <<>>
  /\ UNCHANGED <<tl_n, tl_cprev, tl_results, tl_exc, tl_ret, tl_exp, tl_probe>>
  /\ UNCHANGED cb_vars

\* function.all_nodes(): the list of a canonical transfer function holds one more node.
TL_HostNode(signature, node) ==
  /\ pc = "tl_body"
  /\ \E f \in tl_contract.functions : f.signature = signature /\ Len(f.nodes) < MaxNodes
  /\ tl_contract' =
       [tl_contract EXCEPT !.functions =
          { IF f.signature = signature THEN [f EXCEPT !.nodes = Append(@, node)] ELSE f : f \in @ }]
  /\ UNCHANGED <<pc, tl_n, tl_cprev, tl_scanned, tl_outs, tl_results, tl_exc, tl_ret,
                 tl_exp, tl_probe>>
  /\ UNCHANGED cb_vars

\* The body of the loop, run on the contract; an exception leaves _detect.
TL_Iterate ==
  /\ pc = "tl_body"
  /\ LET run == DetectLoopBody(tl_results, tl_contract)
     IN  /\ pc' = IF run.raised # "" THEN "tl_raised" ELSE "tl_loop"
         /\ tl_exc' = run.raised
         /\ tl_results' = run.results
         /\ tl_scanned' = run.scanned
         /\ tl_outs' = run.outs
  /\ tl_n' = tl_n + 1
  /\ tl_cprev' = tl_results
  /\ UNCHANGED <<tl_contract, tl_ret, tl_exp, tl_probe>>
  /\ UNCHANGED cb_vars

\* self.contracts is exhausted: return results.
TL_Return ==
  /\ pc = "tl_loop"
  /\ pc' = "tl_done"
  /\ tl_ret' = tl_results
  /\ UNCHANGED <<tl_n, tl_contract, tl_cprev, tl_scanned, tl_outs, tl_results, tl_exc,
                 tl_exp, tl_probe>>
  /\ UNCHANGED cb_vars

\* _is_transfer_require_statement(exp), called on an expression of the host.
TL_CallIsTransferRequireStatement ==
  /\ pc = "start"
  /\ pc' = "tl_shape"
  /\ \E exp \in Expressions :
       /\ tl_exp' = exp
       /\ tl_probe' = _is_transfer_require_statement(exp)
  /\ UNCHANGED <<tl_n, tl_contract, tl_cprev, tl_scanned, tl_outs, tl_results, tl_exc, tl_ret>>
  /\ UNCHANGED cb_vars

\* _get_transfer_limit(exp), called on a binary operation of the host.
TL_CallGetTransferLimit ==
  /\ pc = "start"
  /\ pc' = "tl_limit"
  /\ \E exp \in Expressions :
       /\ tl_exp' = exp
       /\ tl_probe' = _get_transfer_limit(exp)
  /\ UNCHANGED <<tl_n, tl_contract, tl_cprev, tl_scanned, tl_outs, tl_results, tl_exc, tl_ret>>
  /\ UNCHANGED cb_vars

Init ==
  /\ pc = "start"
  /\ cb_n = 0
  /\ cb_f = NoFunction
  /\ cb_prev = <<>>
  /\ cb_results = <<>>
  /\ cb_ret = <<>>
  /\ cb_detect = <<>>
  /\ tl_n = 0
  /\ tl_contract = NoContract
  /\ tl_cprev = <<>>
  /\ tl_scanned = <<>>
  /\ tl_outs = <<>>
  /\ tl_results = <<>>
  /\ tl_exc = ""
  /\ tl_ret = <<>>
  /\ tl_exp = NoExpression
  /\ tl_probe = NoOutcome

Next ==
  \/ CB_Call
  \/ \E name \in FunctionNames, modifiers \in ModifierLists : CB_NextFunction(name, modifiers)
  \/ \E instruction \in Instructions : CB_HostInstruction(instruction)
  \/ CB_Iterate
  \/ CB_Return
  \/ CB_Detect
  \/ TL_Call
  \/ \E is_token \in BOOLEAN, functions \in SUBSET FunctionDecls :
       TL_NextContract(is_token, functions)
  \/ \E signature \in {transfer_signatures[1], transfer_signatures[2]}, node \in Nodes :
       TL_HostNode(signature, node)
  \/ TL_Iterate
  \/ TL_Return
  \/ TL_CallIsTransferRequireStatement
  \/ TL_CallGetTransferLimit

Spec == Init /\ [][Next]_vars

\* ==================================================================== claims
\* ---- detector 4.1
IteratedCB == pc = "cb_loop" /\ cb_n > 0

CarriesOnlyOwner(f) == "onlyOwner" \in {f.modifiers[k] : k \in DOMAIN f.modifiers}

IsTransferCall(i) == i.kind = "CallExpression" /\ PyStrIn(Text_transfer, i.called)

IsBalanceOf(v) ==
  v.kind = "StateVariable" /\ v.name = "balanceOf" /\ v.type_name = "mapping(address => uint256)"

IsBalanceArithmetic(i) ==
  /\ i.kind = "BinaryOperation"
  /\ i.type \in {"ADD", "SUB"}
  /\ (IsBalanceOf(i.left) \/ IsBalanceOf(i.right))

HasTransferCall(f) == \E j \in DOMAIN f.instructions : IsTransferCall(f.instructions[j])

HasBalanceArithmetic(f) == \E j \in DOMAIN f.instructions : IsBalanceArithmetic(f.instructions[j])

\* The variable an operand resolves to: an Identifier points to its Variable, a
\* Variable stands for itself.
ResolvesTo(operand) == IF operand.kind = "Identifier" THEN operand.value ELSE operand

ResolvesToBalanceOf(operand) == IsBalanceOf(ResolvesTo(operand))

HasResolvedBalanceArithmetic(f) ==
  \E j \in DOMAIN f.instructions :
    LET i == f.instructions[j]
    IN  /\ i.kind = "BinaryOperation"
        /\ i.type \in {"ADD", "SUB"}
        /\ (ResolvesToBalanceOf(i.left) \/ ResolvesToBalanceOf(i.right))

Qualifies(f) ==
  /\ CarriesOnlyOwner(f)
  /\ f.name \notin {"mint", "burn", "Transfer", "transferFrom"}
  /\ HasTransferCall(f)
  /\ HasResolvedBalanceArithmetic(f)

\* C1: the matcher returns exactly the names of the functions that carry a modifier
\* named "onlyOwner", are not named mint/burn/Transfer/transferFrom, and hold both a
\* call whose callee text contains "transfer" and an ADD or SUB with an operand that
\* resolves to the state variable balanceOf of type mapping(address => uint256),
\* wherever the two instructions stand: each iteration appends the function's name if
\* and only if the function qualifies, the list returned is the list so built, and the
\* matcher run on a contract of that one function returns accordingly.
C1_MatcherExact ==
  /\ IteratedCB =>
       /\ cb_results = IF Qualifies(cb_f) THEN Append(cb_prev, cb_f.name) ELSE cb_prev
       /\ _detect_change_balance_function([functions |-> <<cb_f>>])
            = IF Qualifies(cb_f) THEN <<cb_f.name>> ELSE <<>>
  /\ pc \in {"cb_returned", "cb_detected"} => cb_ret = cb_results

\* C5: a function with no modifier named exactly "onlyOwner" adds nothing to the
\* matcher's result, whatever its instructions contain.
C5_NoOnlyOwnerExcluded ==
  (IteratedCB /\ ~CarriesOnlyOwner(cb_f)) =>
     /\ cb_results = cb_prev
     /\ _detect_change_balance_function([functions |-> <<cb_f>>]) = <<>>

\* A function whose only modifier is "OnlyOwner", holding both kinds of instruction
\* and not on the ignore list, was iterated.
C5_Witness ==
  /\ IteratedCB
  /\ cb_f.modifiers = <<"OnlyOwner">>
  /\ cb_f.name = "setBalance"
  /\ HasTransferCall(cb_f) /\ HasBalanceArithmetic(cb_f)
  /\ cb_results = cb_prev

\* C6: a function named mint, burn, Transfer or transferFrom adds nothing to the
\* matcher's result even with onlyOwner and both predicates holding; the comparison is
\* exact, so a function named "transfer" with onlyOwner and both predicates is added.
C6_IgnoredExcluded ==
  IteratedCB =>
     /\ cb_f.name \in {"mint", "burn", "Transfer", "transferFrom"} => cb_results = cb_prev
     /\ (cb_f.name = "transfer" /\ CarriesOnlyOwner(cb_f)
           /\ HasTransferCall(cb_f) /\ HasBalanceArithmetic(cb_f))
        => cb_results = Append(cb_prev, "transfer")

\* A function named "Transfer" with onlyOwner and both kinds of instruction was
\* iterated after a function named "transfer" had been added.
C6_Witness ==
  /\ IteratedCB
  /\ cb_f.name = "Transfer"
  /\ CarriesOnlyOwner(cb_f) /\ HasTransferCall(cb_f) /\ HasBalanceArithmetic(cb_f)
  /\ cb_prev = <<"transfer">>
  /\ cb_results = cb_prev

\* C9: the registered entry point _detect of detector 4.1 returns the empty list,
\* also for a contract on which the matcher returns names.
C9_DetectEmpty == pc = "cb_detected" => cb_detect = <<>>

\* _detect has returned for a contract on which the matcher returned a name.
C9_Witness == pc = "cb_detected" /\ cb_ret # <<>> /\ cb_detect = <<>>

\* ---- detector 4.2
IteratedTL == pc \in {"tl_loop", "tl_raised", "tl_done"} /\ tl_n > 0

\* The function of the current contract that was scanned k-th.
ScannedFunction(k) ==
  CHOOSE f \in tl_contract.functions :
    /\ f.name = tl_scanned[k]
    /\ f.signature \in {"transfer(address,uint256)", "transferFrom(address,address,uint256)"}

\* Identifier of a uint256 state variable / integer literal, as the specification
\* describes the operands of a sub-comparison.
IsUintStateIdentifier(e) ==
  e.kind = "Identifier" /\ e.value.kind = "StateVariable" /\ e.value.type_name = "uint256"

IsIntegerLiteral(e) == e.kind = "Literal" /\ e.pytype = "int"

IsSubComparison(e) ==
  /\ e.kind = "BinaryOperation"
  /\ e.type = "LT"
  /\ \/ IsUintStateIdentifier(e.left) /\ IsIntegerLiteral(e.right)
     \/ IsIntegerLiteral(e.left) /\ IsUintStateIdentifier(e.right)

GuardShape(e) ==
  /\ e.kind = "BinaryOperation"
  /\ e.type = "AND"
  /\ IsSubComparison(e.left)
  /\ IsSubComparison(e.right)

\* C3: the shape predicate accepts an expression exactly when it is a logical AND of
\* two strict less-than comparisons, each between an Identifier of a uint256 state
\* variable and an integer Literal, in either operand order.
C3_ShapeExact ==
  pc = "tl_shape" => (tl_probe = BoolReturn(TRUE) <=> GuardShape(tl_exp))

\* A comparison of two less-than operations under AND, whatever their operands.
IsAndOfLessThan(e) ==
  /\ e.kind = "BinaryOperation" /\ e.type = "AND"
  /\ e.left.kind = "BinaryOperation" /\ e.left.type = "LT"
  /\ e.right.kind = "BinaryOperation" /\ e.right.type = "LT"

IsMsgValue(e) == e.kind = "Identifier" /\ e.value.name = "msg.value"

\* The integer literals that a sub-comparison pairs with msg.value.
PairedLiterals(c) ==
  (IF IsMsgValue(c.left) /\ IsIntegerLiteral(c.right) THEN {c.right.ival} ELSE {})
  \cup (IF IsMsgValue(c.right) /\ IsIntegerLiteral(c.left) THEN {c.left.ival} ELSE {})

MsgValueLimits(e) == PairedLiterals(e.left) \cup PairedLiterals(e.right)

MentionsMsgValue(e) ==
  \E c \in {e.left, e.right} : IsMsgValue(c.left) \/ IsMsgValue(c.right)

\* What the claim expects of the extraction on a matched expression e.
ExtractionAsClaimed(e, out) ==
  /\ MsgValueLimits(e) # {} => \E n \in MsgValueLimits(e) : out = ValueReturn(PyInt(n))
  /\ ~MentionsMsgValue(e) => out = ValueReturn(PyNone)

FirstExpressionNode(nodes) ==
  LET ks == {k \in DOMAIN nodes : nodes[k].type = "EXPRESSION"}
  IN  nodes[CHOOSE k \in ks : \A j \in ks : k <= j]

HasExpressionNode(nodes) == \E k \in DOMAIN nodes : nodes[k].type = "EXPRESSION"

\* C2: when the first EXPRESSION node of a transfer function matches the guard, the
\* limit extracted is the numeric literal paired with the side that equals msg.value
\* (balance < msg.value && msg.value < 100 gives 100) and a finding with that limit is
\* emitted; when no side equals msg.value, no limit is reported and no finding made.
C2_LimitExtraction ==
  /\ IteratedTL =>
       \A k \in DOMAIN tl_scanned :
         LET f == ScannedFunction(k)
         IN  (HasExpressionNode(f.nodes) /\ IsAndOfLessThan(FirstExpressionNode(f.nodes).expression))
             => LET e == FirstExpressionNode(f.nodes).expression
                IN  /\ ExtractionAsClaimed(e, tl_outs[k])
                    /\ MsgValueLimits(e) # {} =>
                         \E i \in DOMAIN tl_results :
                           /\ tl_results[i].contract.index = tl_contract.index
                           /\ tl_results[i].function = f.name
                           /\ tl_results[i].limit.ival \in MsgValueLimits(e)
                    /\ ~MentionsMsgValue(e) => tl_exc = ""
  /\ (pc = "tl_limit" /\ GuardShape(tl_exp)) => ExtractionAsClaimed(tl_exp, tl_probe)

\* The index of the first EXPRESSION node whose expression has the guard shape, 0 if none.
FirstMatch(nodes) ==
  LET ks == {k \in DOMAIN nodes : nodes[k].type = "EXPRESSION" /\ GuardShape(nodes[k].expression)}
  IN  IF ks = {} THEN 0 ELSE CHOOSE k \in ks : \A j \in ks : k <= j

\* C7: the scan of a function is decided by the first EXPRESSION node whose
\* expression matches the guard shape alone: nodes of another type and EXPRESSION
\* nodes that do not match are skipped, nodes after it are not examined, and a
\* function with no matching node has no limit.
C7_FirstMatchWins ==
  IteratedTL =>
    \A k \in DOMAIN tl_scanned :
      LET nodes == ScannedFunction(k).nodes
          m == FirstMatch(nodes)
      IN  tl_outs[k] = IF m = 0 THEN ValueReturn(PyNone)
                       ELSE _detect_transfer_limit([nodes |-> <<nodes[m]>>])

HasGuardNode(f) ==
  \E k \in DOMAIN f.nodes : f.nodes[k] = Node("EXPRESSION", GuardExpression)

\* C4: _detect emits no finding naming a contract whose is_token flag is false: every
\* finding names a token contract, and the iteration of a contract that is not a token
\* scans none of its functions, adds nothing to the results and raises nothing.
C4_NonTokenSkipped ==
  /\ \A i \in DOMAIN tl_results : tl_results[i].contract.is_token
  /\ (IteratedTL /\ ~tl_contract.is_token) =>
       /\ tl_scanned = <<>>
       /\ tl_results = tl_cprev
       /\ tl_exc = ""

\* A contract that is not a token, with both canonical functions, each holding the
\* guard in an EXPRESSION node, was iterated.
C4_Witness ==
  /\ pc = "tl_loop" /\ tl_n > 0
  /\ ~tl_contract.is_token
  /\ HasFunction(tl_contract, "transfer(address,uint256)")
  /\ HasFunction(tl_contract, "transferFrom(address,address,uint256)")
  /\ \A f \in tl_contract.functions : HasGuardNode(f)
  /\ tl_results = <<>>

\* The findings for the scans of the current contract, in scan order: one for each
\* scan that returned a limit.
RECURSIVE FindingsOf(_)
FindingsOf(k) ==
  IF k = 0 THEN <<>>
  ELSE IF tl_outs[k].raised = "" /\ tl_outs[k].value.py # "None"
       THEN Append(FindingsOf(k - 1),
                   [contract |-> [index |-> tl_contract.index, is_token |-> tl_contract.is_token],
                    function |-> tl_scanned[k], limit |-> tl_outs[k].value])
       ELSE FindingsOf(k - 1)

\* The canonical functions a token contract has, by name, transfer first.
CanonicalNames(contract) ==
  (IF HasFunction(contract, "transfer(address,uint256)") THEN <<"transfer">> ELSE <<>>)
  \o (IF HasFunction(contract, "transferFrom(address,address,uint256)")
      THEN <<"transferFrom">> ELSE <<>>)

IsPrefix(s, t) == Len(s) <= Len(t) /\ SubSeq(t, 1, Len(s)) = s

\* C8: _detect adds exactly one finding for each (token contract, canonical transfer
\* function) whose scan returned a limit and none for any other; a canonical signature
\* the contract lacks is skipped without an error and the other one is still scanned.
C8_FindingsExact ==
  IteratedTL =>
    /\ Len(tl_outs) = Len(tl_scanned)
    /\ tl_results = tl_cprev \o FindingsOf(Len(tl_outs))
    /\ (tl_contract.is_token /\ tl_exc = "") => tl_scanned = CanonicalNames(tl_contract)
    /\ (tl_contract.is_token /\ tl_exc # "") =>
         /\ IsPrefix(tl_scanned, CanonicalNames(tl_contract))
         /\ tl_scanned # <<>>
         /\ tl_outs[Len(tl_outs)].raised = tl_exc
    /\ (tl_contract.is_token /\ CanonicalNames(tl_contract) = <<>>) => tl_exc = ""

\* A token contract without transfer(address,uint256) whose
\* transferFrom(address,address,uint256) has nodes was iterated: transferFrom was
\* scanned, returned no limit, and no finding was added.
C8_Witness ==
  /\ pc = "tl_loop" /\ tl_n > 0
  /\ tl_contract.is_token
  /\ ~HasFunction(tl_contract, "transfer(address,uint256)")
  /\ tl_scanned = <<"transferFrom">>
  /\ ScannedFunction(1).nodes # <<>>
  /\ tl_outs = <<ValueReturn(PyNone)>>
  /\ tl_results = tl_cprev
====
